---- MODULE Spec2Model ----
(***************************************************************************)
(* A model of package xerrors (go.innotegrity.dev/xerrors).                *)
(*                                                                         *)
(* src/error.go        the error value xerr, its constructors, queries,    *)
(*                     attribute mutators, JSON serialization and the      *)
(*                     process-wide capture flag with getCaller.           *)
(* src/unnamed/part_000 the caller-info variant of the capture controller: *)
(*                     CaptureCallerInfo, StripCallerFilePrefixes,         *)
(*                     DefaultCallerInfo, GetCallerInfo.                   *)
(*                                                                         *)
(* Two specifications share the state:                                     *)
(*   Spec      one flow of control that builds, enriches, queries and      *)
(*             serializes error values; every call is one action.          *)
(*   SpecConc  goroutines calling the capture controller and the           *)
(*             constructors; every access to the package variables is a    *)
(*             step of its own, so that interleavings are visible.         *)
(*                                                                         *)
(* Go strings that the code inspects (file paths) are sequences of         *)
(* characters; messages, keys and attribute values are TLA+ strings.       *)
(* An error interface value is an index into the heap errs, 0 being nil.   *)
(***************************************************************************)
EXTENDS Integers, Sequences, FiniteSets, TLC

VARIABLES
    errs,                \* the heap of error values, by address
    captureCaller,       \* _captureCaller
    callerFilePrefixes,  \* _callerFilePrefixes: the slice header [ptr, len]
    callerMutex,         \* _callerMutex: 0 when free, else the goroutine holding it
    ret,                 \* Spec: the last call, its receiver, arguments and result
    nattr,               \* Spec: WithAttr/WithAttrs calls made so far
    born,                \* Spec: each error value as its constructor returned it
    pc,                  \* SpecConc: each goroutine's position
    local,               \* SpecConc: each goroutine's parameters and locals
    configured,          \* SpecConc: the prefix list last stored completely
    ncalls               \* SpecConc: calls begun so far

vars == <<errs, captureCaller, callerFilePrefixes, callerMutex, ret, nattr,
          born, pc, local, configured, ncalls>>

valueVars == <<errs, ret, nattr, born>>
concVars == <<callerFilePrefixes, callerMutex, pc, local, configured, ncalls>>

-----------------------------------------------------------------------------
(* Bounds of the model.                                                    *)

\* xerr values built in one behaviour of Spec, after those of InitialErrs
MaxErrs == 1
\* WithAttr/WithAttrs calls in one behaviour of Spec
MaxAttrCalls == 2
\* calls begun in one behaviour of SpecConc
MaxCalls == 3
\* largest skip argument given to GetCallerInfo
MaxSkip == 1

-----------------------------------------------------------------------------
(* Inputs.                                                                 *)

Codes == {404, 500}
Messages == {"not found"}
\* a format is a sequence of literal pieces and verbs
Formats == {<<"id ", "%d">>}
ArgLists == {<<7>>}
Keys == {"k1", "k2"}
\* attribute values given to WithAttr; in AttrMaps, "chan" stands for a value
\* encoding/json cannot encode (a channel)
Values == {"v1", "v3"}
Threads == {1, 2}

\* file paths, as sequences of characters
PathMain == <<"/", "a", "/", "b", "/", "f">>
PathLib == <<"/", "x", "/", "e">>
PathOther == <<"/", "c", "/", "g">>

\* stack frames: the function, and the file and line of its current call
Frame(fn, file, line) == [fn |-> fn, file |-> file, line |-> line]

\* the frames of callers: the immediate caller first, its own callers after
\* it. A function that runs has a caller (at the least the runtime's entry of
\* the goroutine), so no stack of callers is empty.
CallerStacks ==
    { <<Frame("main.f", PathMain, 7), Frame("main.main", PathMain, 3)>>,
      <<Frame("main.g", PathOther, 9)>> }

-----------------------------------------------------------------------------
(* Go values.                                                              *)

EmptyKV == [k \in {} |-> "v1"]

\* a nil map, and the map make(map[string]any) returns
NilMap == [nil |-> TRUE, kv |-> EmptyKV]
MakeMap == [nil |-> FALSE, kv |-> EmptyKV]

\* a nil pointer, and a pointer to v
NilPtr == [nil |-> TRUE, v |-> 0]
PtrTo(v) == [nil |-> FALSE, v |-> v]

EmptyString == <<>>
unknownFilename == <<"?", "?", "?">>
unknownString == <<"?", "?", "?">>

\* errors made outside the package: errors.New values ("leaf") and
\* fmt.Errorf("...%w", err) values ("fmt"), which have an Unwrap method
PlainError(kind, message, inner) ==
    [kind |-> kind, code |-> 0, message |-> message, attrs |-> NilMap,
     file |-> EmptyString, line |-> 0, wrappedErr |-> inner]

IsXerr(h, e) == e \in 1..Len(h) /\ h[e].kind = "xerr"
Xerrs(h) == {e \in 1..Len(h) : h[e].kind = "xerr"}

-----------------------------------------------------------------------------
(* The standard library, as far as the package calls it.                   *)

\* runtime.Caller(skip) on a stack whose first frame is the function that
\* calls runtime.Caller: skip 0 names that function, 1 its caller, ...
runtimeCaller(stack, skip) ==
    IF skip + 1 <= Len(stack)
    THEN [ok |-> TRUE, fn |-> stack[skip + 1].fn,
          file |-> stack[skip + 1].file, line |-> stack[skip + 1].line]
    ELSE [ok |-> FALSE, fn |-> "", file |-> EmptyString, line |-> 0]

\* fmt.Sprintf for the verbs %d and %s: each verb takes the next argument
RECURSIVE Sprintf(_, _)
Sprintf(format, args) ==
    IF format = <<>> THEN ""
    ELSE IF Head(format) \in {"%d", "%s"}
         THEN IF args = <<>>
              THEN "%!" \o "(MISSING)" \o Sprintf(Tail(format), args)
              ELSE ToString(Head(args)) \o Sprintf(Tail(format), Tail(args))
         ELSE Head(format) \o Sprintf(Tail(format), args)

\* strings.HasPrefix
HasPrefix(s, prefix) ==
    Len(prefix) <= Len(s) /\ SubSeq(s, 1, Len(prefix)) = prefix

\* maps.Copy(dst, src): dst[k] = v for every entry of src; storing into a nil
\* map panics, and a src without entries stores nothing
mapsCopy(dst, src) ==
    IF DOMAIN src.kv = {} THEN [panic |-> FALSE, m |-> dst]
    ELSE IF dst.nil THEN [panic |-> TRUE, m |-> dst]
    ELSE [panic |-> FALSE, m |-> [dst EXCEPT !.kv = src.kv @@ dst.kv]]

\* JSON values
JNum(n) == [t |-> "number", v |-> n]
JStr(s) == [t |-> "string", v |-> s]
JObj(kv) == [t |-> "object", v |-> kv]
JNull == [t |-> "null", v |-> 0]
NoFields == [k \in {} |-> JNull]

\* one field of a struct under encoding/json: a field tagged omitempty is left
\* out when it is a nil pointer or a map without entries; a nil pointer or a nil
\* map that is not left out is written as null
jsonPtrField(name, p, omitempty, t) ==
    IF p.nil THEN (IF omitempty THEN NoFields ELSE name :> JNull)
    ELSE name :> [t |-> t, v |-> p.v]

\* a faulty map field, written as if its tag had no omitempty; C9 must fail
\* with it
jsonMapFieldAlways(name, m, omitempty) ==
    IF m.nil THEN name :> JNull
    ELSE name :> JObj([k \in DOMAIN m.kv |-> JStr(m.kv[k])])

jsonMapField(name, m, omitempty) ==
    IF omitempty /\ DOMAIN m.kv = {} THEN NoFields
    ELSE IF m.nil THEN name :> JNull
    ELSE name :> JObj([k \in DOMAIN m.kv |-> JStr(m.kv[k])])

\* json.Marshal of a jsonXErr: an error when a value cannot be encoded
jsonMarshal(j) ==
    IF \E k \in DOMAIN j.Attrs.kv : j.Attrs.kv[k] = "chan"
    THEN [err |-> "json: unsupported type: chan int", bytes |-> NoFields]
    ELSE [err |-> "",
          bytes |-> jsonMapField("attrs", j.Attrs, TRUE)
                    @@ ("code" :> JNum(j.Code))
                    @@ jsonPtrField("file", j.File, TRUE, "string")
                    @@ jsonPtrField("line", j.Line, TRUE, "number")
                    @@ ("message" :> JStr(j.Message))]

-----------------------------------------------------------------------------
(* src/error.go: helpers and methods, as operators on the heap.            *)

\* a faulty getCaller that forgets the frame it adds itself; C6 must fail
\* with it
getCallerSkipShort(stack, skip) ==
    LET c == runtimeCaller(<<Frame("xerrors.getCaller", PathLib, 33)>> \o stack,
                           skip)
    IN  IF ~c.ok THEN [file |-> unknownFilename, line |-> 0]
        ELSE [file |-> c.file, line |-> c.line]

\* getCaller(skip), called in a function whose stack (that function first) is
\* given: getCaller's own frame is one more frame for runtime.Caller to skip
getCaller(stack, skip) ==
    LET c == runtimeCaller(<<Frame("xerrors.getCaller", PathLib, 33)>> \o stack,
                           skip + 1)
    IN  IF ~c.ok THEN [file |-> unknownFilename, line |-> 0]
        ELSE [file |-> c.file, line |-> c.line]

\* the struct literal &xerr{code: ..., message: ..., wrappedErr: ...}
xerrLit(code, message, wrapped) ==
    [kind |-> "xerr", code |-> code, message |-> message, attrs |-> NilMap,
     file |-> EmptyString, line |-> 0, wrappedErr |-> wrapped]

\* if _captureCaller { xerr.file, xerr.line = getCaller(1) }, in constructor fn
\* called from callers, the flag having been read as flag
captureInto(x, flag, fn, line, callers) ==
    IF flag
    THEN LET c == getCaller(<<Frame(fn, PathLib, line)>> \o callers, 1)
         IN  [x EXCEPT !.file = c.file, !.line = c.line]
    ELSE x

xerrAttrs(h, e) == h[e].attrs
xerrCode(h, e) == h[e].code
xerrError(h, e) == h[e].message
xerrFile(h, e) == h[e].file
xerrLine(h, e) == h[e].line

RECURSIVE errorsIsLoop(_, _, _)
RECURSIVE xerrIs(_, _, _)

\* errors.Is(err, target): nil matches only nil; else walk err's chain
errorsIs(h, err, target) ==
    IF err = 0 \/ target = 0 THEN err = target
    ELSE errorsIsLoop(h, err, target)

\* the loop of errors.Is: err == target, or err has an Is method that accepts
\* target, else continue with err.Unwrap(); an xerr has Is and no Unwrap
errorsIsLoop(h, err, target) ==
    \/ err = target
    \/ h[err].kind = "xerr" /\ xerrIs(h, err, target)
    \/ /\ h[err].kind = "fmt"
       /\ h[err].wrappedErr # 0
       /\ errorsIsLoop(h, h[err].wrappedErr, target)

\* (e *xerr).Is(err)
xerrIs(h, e, err) ==
    IF h[e].wrappedErr = 0 THEN FALSE
    ELSE errorsIs(h, err, h[e].wrappedErr)

\* (e *xerr).MarshalJSON()
xerrMarshalJSON(h, e) ==
    LET jsonError == [Attrs |-> NilMap, Code |-> h[e].code, File |-> NilPtr,
                      Line |-> NilPtr, Message |-> h[e].message]
        copied == IF ~h[e].attrs.nil THEN mapsCopy(jsonError.Attrs, h[e].attrs)
                  ELSE [panic |-> FALSE, m |-> jsonError.Attrs]
        withFile == IF h[e].file # unknownFilename /\ h[e].file # EmptyString
                    THEN PtrTo(h[e].file) ELSE NilPtr
        withLine == IF h[e].line >= 1 THEN PtrTo(h[e].line) ELSE NilPtr
        out == jsonMarshal([jsonError EXCEPT !.Attrs = copied.m,
                                             !.File = withFile,
                                             !.Line = withLine])
    IN  IF copied.panic
        THEN [panic |-> TRUE, err |-> "assignment to entry in nil map",
              bytes |-> NoFields]
        ELSE [panic |-> FALSE, err |-> out.err, bytes |-> out.bytes]

\* (e *xerr).String(): string(str) keeps the bytes, so the JSON text stands
\* for itself; the diagnostic is a string built with Sprintf
xerrString(h, e) ==
    LET m == xerrMarshalJSON(h, e)
    IN  IF m.panic THEN [panic |-> TRUE, json |-> FALSE, text |-> m.err,
                         bytes |-> NoFields]
        ELSE IF m.err # ""
        THEN [panic |-> FALSE, json |-> FALSE,
              text |-> Sprintf(<<"failed to marshal error to JSON: ", "%s">>,
                               <<m.err>>),
              bytes |-> NoFields]
        ELSE [panic |-> FALSE, json |-> TRUE, text |-> "", bytes |-> m.bytes]

\* a faulty WithAttr that stores into a map made anew at every call; C8 must
\* fail with it
xerrWithAttrFresh(x, key, value) ==
    [x EXCEPT !.attrs = [MakeMap EXCEPT !.kv = (key :> value)]]

\* (e *xerr).WithAttr(key, value): the value e points to afterwards
xerrWithAttr(x, key, value) ==
    LET made == IF x.attrs.nil THEN MakeMap ELSE x.attrs
    IN  [x EXCEPT !.attrs = [made EXCEPT !.kv = (key :> value) @@ made.kv]]

\* a faulty WithAttrs that rebuilds the value from its constructor's arguments
\* and so loses the origin; C7 must fail with it
xerrWithAttrsRebuilt(x, attrs) ==
    LET made == IF x.attrs.nil THEN MakeMap ELSE x.attrs
    IN  [xerrLit(x.code, x.message, x.wrappedErr) EXCEPT
            !.attrs = mapsCopy(made, attrs).m]

\* (e *xerr).WithAttrs(attrs): the value e points to afterwards
xerrWithAttrs(x, attrs) ==
    LET made == IF x.attrs.nil THEN MakeMap ELSE x.attrs
    IN  [x EXCEPT !.attrs = mapsCopy(made, attrs).m]

-----------------------------------------------------------------------------
(* Spec: one flow of control; every call is one action.                    *)

\* the errors that exist when a behaviour starts: io := errors.New("io"),
\* fmt.Errorf("read: %w", io), and Wrap(500, io, "inner") built while the
\* flag still had its initial value false
InitialErrs ==
    << PlainError("leaf", "io", 0),
       PlainError("fmt", "read: io", 1),
       captureInto(xerrLit(500, "inner", 1), FALSE, "xerrors.Wrap", 135,
                   <<Frame("main.init", PathMain, 2)>>) >>

\* maps given to WithAttrs: nil, empty, one entry, two entries (one of them a
\* value encoding/json cannot encode)
AttrMaps ==
    { NilMap, MakeMap,
      [nil |-> FALSE, kv |-> ("k1" :> "v3")],
      [nil |-> FALSE, kv |-> ("k1" :> "v1") @@ ("k2" :> "chan")] }

NoCall == [op |-> "none"]

Init ==
    /\ errs = InitialErrs
    /\ captureCaller = FALSE
    /\ callerFilePrefixes = [ptr |-> <<>>, len |-> 0]
    /\ callerMutex = 0
    /\ ret = NoCall
    /\ nattr = 0
    /\ born = InitialErrs
    /\ pc = [t \in Threads |-> "idle"]
    /\ local = [t \in Threads |-> [op |-> "none"]]
    /\ configured = <<>>
    /\ ncalls = 0

CanBuild == Len(errs) < Len(InitialErrs) + MaxErrs

\* the heap after a constructor returned x, and the call's record
Built(op, x) ==
    /\ errs' = Append(errs, x)
    /\ born' = Append(born, x)
    /\ ret' = [op |-> op, val |-> Len(errs) + 1]
    /\ UNCHANGED <<captureCaller, nattr>>
    /\ UNCHANGED concVars

\* CaptureCaller(enable), run without interruption
CaptureCaller(enable) ==
    /\ callerMutex = 0
    /\ captureCaller' = enable
    /\ ret' = [op |-> "CaptureCaller", arg |-> enable]
    /\ UNCHANGED <<errs, nattr, born>>
    /\ UNCHANGED concVars

New(code, message, callers) ==
    /\ CanBuild
    /\ Built("New", captureInto(xerrLit(code, message, 0), captureCaller,
                                "xerrors.New", 110, callers))

Newf(code, format, args, callers) ==
    /\ CanBuild
    /\ Built("Newf", captureInto(xerrLit(code, Sprintf(format, args), 0),
                                 captureCaller, "xerrors.Newf", 122, callers))

Wrap(code, err, message, callers) ==
    /\ CanBuild
    /\ Built("Wrap", captureInto(xerrLit(code, message, err), captureCaller,
                                 "xerrors.Wrap", 135, callers))

Wrapf(code, err, format, args, callers) ==
    /\ CanBuild
    /\ Built("Wrapf", captureInto(xerrLit(code, Sprintf(format, args), err),
                                  captureCaller, "xerrors.Wrapf", 148, callers))

\* a call that changes nothing but reports a result
Query(r) ==
    /\ ret' = r
    /\ UNCHANGED <<errs, captureCaller, nattr, born>>
    /\ UNCHANGED concVars

Attrs(e) == Query([op |-> "Attrs", recv |-> e, val |-> xerrAttrs(errs, e)])
Code(e) == Query([op |-> "Code", recv |-> e, val |-> xerrCode(errs, e)])
Error(e) == Query([op |-> "Error", recv |-> e, val |-> xerrError(errs, e)])
File(e) == Query([op |-> "File", recv |-> e, val |-> xerrFile(errs, e)])
Line(e) == Query([op |-> "Line", recv |-> e, val |-> xerrLine(errs, e)])

Is(e, target) ==
    Query([op |-> "Is", recv |-> e, arg |-> target,
           val |-> xerrIs(errs, e, target)])

MarshalJSON(e) ==
    LET m == xerrMarshalJSON(errs, e)
    IN  Query([op |-> "MarshalJSON", recv |-> e, panic |-> m.panic,
               err |-> m.err, val |-> m.bytes])

String(e) ==
    LET m == xerrString(errs, e)
    IN  Query([op |-> "String", recv |-> e, panic |-> m.panic,
               json |-> m.json, text |-> m.text, val |-> m.bytes])

WithAttr(e, key, value) ==
    /\ nattr < MaxAttrCalls
    /\ errs' = [errs EXCEPT ![e] = xerrWithAttr(errs[e], key, value)]
    /\ ret' = [op |-> "WithAttr", recv |-> e, key |-> key, value |-> value,
               val |-> e]
    /\ nattr' = nattr + 1
    /\ UNCHANGED <<captureCaller, born>>
    /\ UNCHANGED concVars

WithAttrs(e, attrs) ==
    /\ nattr < MaxAttrCalls
    /\ errs' = [errs EXCEPT ![e] = xerrWithAttrs(errs[e], attrs)]
    /\ ret' = [op |-> "WithAttrs", recv |-> e, arg |-> attrs, val |-> e]
    /\ nattr' = nattr + 1
    /\ UNCHANGED <<captureCaller, born>>
    /\ UNCHANGED concVars

Next ==
    \/ \E enable \in BOOLEAN : CaptureCaller(enable)
    \/ \E code \in Codes, message \in Messages, callers \in CallerStacks :
          New(code, message, callers)
    \/ \E code \in Codes, format \in Formats, args \in ArgLists,
          callers \in CallerStacks :
          Newf(code, format, args, callers)
    \/ \E code \in Codes, err \in 1..Len(errs), message \in Messages,
          callers \in CallerStacks :
          Wrap(code, err, message, callers)
    \/ \E code \in Codes, err \in 1..Len(errs), format \in Formats,
          args \in ArgLists, callers \in CallerStacks :
          Wrapf(code, err, format, args, callers)
    \/ \E e \in Xerrs(errs) : Attrs(e)
    \/ \E e \in Xerrs(errs) : Code(e)
    \/ \E e \in Xerrs(errs) : Error(e)
    \/ \E e \in Xerrs(errs) : File(e)
    \/ \E e \in Xerrs(errs) : Line(e)
    \/ \E e \in Xerrs(errs) : MarshalJSON(e)
    \/ \E e \in Xerrs(errs) : String(e)
    \/ \E e \in Xerrs(errs), target \in 0..Len(errs) : Is(e, target)
    \/ \E e \in Xerrs(errs), key \in Keys, value \in Values :
          WithAttr(e, key, value)
    \/ \E e \in Xerrs(errs), attrs \in AttrMaps : WithAttrs(e, attrs)

Spec == Init /\ [][Next]_vars

-----------------------------------------------------------------------------
(* Properties of the error value, checked under Spec.                      *)

HasAttrs(x) == DOMAIN x.attrs.kv # {}
Marshalled == ret.op = "MarshalJSON" /\ ~ret.panic /\ ret.err = ""

\* the attributes of x as a JSON object
AttrsAsJSON(x) == [k \in DOMAIN x.attrs.kv |-> JStr(x.attrs.kv[k])]

\* C2: for an error that has at least one attribute, MarshalJSON returns
\* without failure a JSON object whose "attrs" field holds exactly the error's
\* attributes; without origin and cause its keys are code, message and attrs.
C2_AttrsSerialized ==
    (ret.op = "MarshalJSON" /\ HasAttrs(errs[ret.recv])) =>
        /\ ~ret.panic
        /\ ret.err = ""
        /\ "attrs" \in DOMAIN ret.val
        /\ ret.val["attrs"].t = "object"
        /\ ret.val["attrs"].v = AttrsAsJSON(errs[ret.recv])
        /\ (errs[ret.recv].line = 0 /\ errs[ret.recv].wrappedErr = 0) =>
              DOMAIN ret.val = {"code", "message", "attrs"}

\* C3: the serialized form has a "wrappedError" field exactly when the error
\* has a cause; for a plain cause it is an object with the cause's message,
\* for a cause that is an xerr it is that cause's own serialized form.
C3_WrappedErrorSerialized ==
    Marshalled =>
        LET x == errs[ret.recv]
        IN  /\ ("wrappedError" \in DOMAIN ret.val) <=> (x.wrappedErr # 0)
            /\ ("wrappedError" \in DOMAIN ret.val) =>
                  ret.val["wrappedError"].v =
                     IF errs[x.wrappedErr].kind = "xerr"
                     THEN xerrMarshalJSON(errs, x.wrappedErr).bytes
                     ELSE "message" :> JStr(errs[x.wrappedErr].message)

\* the errors err.Unwrap() leads to from c, c included
RECURSIVE UnwrapChain(_, _)
UnwrapChain(h, c) ==
    {c} \cup (IF h[c].kind = "fmt" /\ h[c].wrappedErr # 0
              THEN UnwrapChain(h, h[c].wrappedErr) ELSE {})

\* the chain walk from e's cause: an element matches when it is the target,
\* or when it is itself an xerr whose own walk finds the target
RECURSIVE FoundFromCause(_, _, _)
FoundFromCause(h, e, target) ==
    /\ h[e].wrappedErr # 0
    /\ \E x \in UnwrapChain(h, h[e].wrappedErr) :
          \/ x = target
          \/ h[x].kind = "xerr" /\ FoundFromCause(h, x, target)

\* C4: e.Is(t) is true exactly when e has a cause and t is found by walking
\* the unwrap chain that starts at that cause.
C4_IsWalksCauseChain ==
    ret.op = "Is" => (ret.val <=> FoundFromCause(errs, ret.recv, ret.arg))

\* C5: String() always returns a string: the JSON form when serialization
\* succeeds, a diagnostic that describes the failure when it fails.
C5_StringTotal ==
    ret.op = "String" =>
        /\ ~ret.panic
        /\ ret.json <=> xerrMarshalJSON(errs, ret.recv).err = ""
        /\ ~ret.json => ret.text # ""

\* C7: whatever was called since, every error has the code, message, origin
\* and cause its constructor gave it, and Code(), Error(), File() and Line()
\* return them.
C7_FixedAtConstruction ==
    /\ Len(born) = Len(errs)
    /\ \A e \in 1..Len(errs) :
          /\ errs[e].code = born[e].code
          /\ errs[e].message = born[e].message
          /\ errs[e].file = born[e].file
          /\ errs[e].line = born[e].line
          /\ errs[e].wrappedErr = born[e].wrappedErr
    /\ ret.op = "Code" => ret.val = born[ret.recv].code
    /\ ret.op = "Error" => ret.val = born[ret.recv].message
    /\ ret.op = "File" => ret.val = born[ret.recv].file
    /\ ret.op = "Line" => ret.val = born[ret.recv].line

\* an error built with capture on and with a cause, enriched, and asked for
\* its file after capture was turned off
C7_Witness ==
    /\ ret.op = "File"
    /\ ~captureCaller
    /\ errs[ret.recv].line = 7
    /\ errs[ret.recv].wrappedErr # 0
    /\ HasAttrs(errs[ret.recv])
    /\ ret.recv > Len(InitialErrs)

\* C8: WithAttr and WithAttrs return their receiver; afterwards the map
\* exists, the keys given have the values given, every other key has the value
\* it had, and no call removes a key from any error's map.
C8_AttrsOverwriteAndGrow ==
    [][ /\ \A e \in 1..Len(errs) :
              /\ errs[e].attrs.nil \/ ~errs'[e].attrs.nil
              /\ DOMAIN errs[e].attrs.kv \subseteq DOMAIN errs'[e].attrs.kv
        /\ ret'.op = "WithAttr" =>
              LET old == errs[ret'.recv].attrs.kv
                  new == errs'[ret'.recv].attrs.kv
              IN  /\ ret'.val = ret'.recv
                  /\ ~errs'[ret'.recv].attrs.nil
                  /\ DOMAIN new = DOMAIN old \cup {ret'.key}
                  /\ new[ret'.key] = ret'.value
                  /\ \A k \in DOMAIN old \ {ret'.key} : new[k] = old[k]
        /\ ret'.op = "WithAttrs" =>
              LET old == errs[ret'.recv].attrs.kv
                  new == errs'[ret'.recv].attrs.kv
                  arg == ret'.arg.kv
              IN  /\ ret'.val = ret'.recv
                  /\ ~errs'[ret'.recv].attrs.nil
                  /\ DOMAIN new = DOMAIN old \cup DOMAIN arg
                  /\ \A k \in DOMAIN arg : new[k] = arg[k]
                  /\ \A k \in DOMAIN old \ DOMAIN arg : new[k] = old[k]
      ]_vars

\* a key set earlier is set again: the new value replaces the old one and the
\* other key stays
C8_Witness ==
    /\ ret.op = "WithAttr"
    /\ ret.key = "k1"
    /\ errs[ret.recv].attrs.kv = ("k1" :> "v3") @@ ("k2" :> "chan")

\* C9: a serialized form has "code" and "message"; it has "attrs" only when
\* an attribute is set, "file" only when the file is neither empty nor "???",
\* "line" only when the line is not 0, and no field that is null. The last
\* conjunct asks the same of every file and line an error may hold.
C9_OmitsEmpty ==
    /\ Marshalled =>
          LET x == errs[ret.recv]
          IN  /\ {"code", "message"} \subseteq DOMAIN ret.val
              /\ ret.val["code"].v = x.code
              /\ ret.val["message"].v = x.message
              /\ ("attrs" \in DOMAIN ret.val) => HasAttrs(x)
              /\ ("file" \in DOMAIN ret.val) <=>
                    (x.file # EmptyString /\ x.file # unknownFilename)
              /\ ("line" \in DOMAIN ret.val) <=> (x.line # 0)
              /\ \A k \in DOMAIN ret.val : ret.val[k].t # "null"
    /\ \A e \in Xerrs(errs) :
          \A f \in {EmptyString, unknownFilename, PathMain}, l \in {0, 7} :
             LET m == xerrMarshalJSON(
                         [errs EXCEPT ![e].file = f, ![e].line = l], e)
             IN  ~m.panic =>
                    /\ ("file" \in DOMAIN m.bytes) <=>
                          (f # EmptyString /\ f # unknownFilename)
                    /\ ("line" \in DOMAIN m.bytes) <=> (l # 0)
                    /\ \A k \in DOMAIN m.bytes : m.bytes[k].t # "null"

\* an error without origin whose map WithAttrs created from an empty map:
\* its serialized form has the two required keys only
C9_Witness ==
    /\ Marshalled
    /\ ~errs[ret.recv].attrs.nil
    /\ ~HasAttrs(errs[ret.recv])
    /\ errs[ret.recv].wrappedErr = 0
    /\ DOMAIN ret.val = {"code", "message"}

-----------------------------------------------------------------------------
(* src/unnamed/part_000: helpers of the caller-info variant.               *)

\* DefaultCallerInfo()
DefaultCallerInfo == [File |-> unknownString, Line |-> 0, Func |-> unknownString]

\* the loop of GetCallerInfo over the prefixes: the first prefix the file
\* starts with is cut off, and the loop ends there
RECURSIVE stripFirstPrefix(_, _)
stripFirstPrefix(file, prefixes) ==
    IF prefixes = <<>> THEN file
    ELSE IF HasPrefix(file, Head(prefixes))
         THEN SubSeq(file, Len(Head(prefixes)) + 1, Len(file))
         ELSE stripFirstPrefix(file, Tail(prefixes))

\* the function names runtime.FuncForPC(pc).Name() returns are strings; the
\* CallerInfo GetCallerInfo builds from a frame and the prefixes it read
callerInfoOf(c, prefixes) ==
    [File |-> stripFirstPrefix(c.file, prefixes), Line |-> c.line, Func |-> c.fn]

-----------------------------------------------------------------------------
(* SpecConc: goroutines; every access to a package variable is one step.   *)
(* A call begins with its first statement, so a goroutine that waits for   *)
(* the mutex is one whose Lock step is not enabled.                        *)

\* prefix lists given to StripCallerFilePrefixes
PrefixLists ==
    { << <<"/", "c">>, <<"/", "a">> >>,
      << <<"/", "a", "/", "b">> >>,
      << <<"/", "a">>, <<"/", "b">> >> }

Idle == [op |-> "none"]
CanCall(t) == pc[t] = "idle" /\ ncalls < MaxCalls

\* goroutine t moves to position p with locals l
Goto(t, p, l) ==
    /\ pc' = [pc EXCEPT ![t] = p]
    /\ local' = [local EXCEPT ![t] = l]

\* the prefix lists that are or become the configured one while t runs
\* GetCallerInfo: the list stored last, and those of calls under way
ListsNow ==
    {configured} \cup {local[w].prefixes : w \in {u \in Threads : pc[u] \in {"sp_store", "sp_unlock"}}}

\* ---- CaptureCaller (src/error.go)
CaptureCallerLock(t, enable) ==
    /\ CanCall(t)
    /\ callerMutex = 0
    /\ callerMutex' = t
    /\ Goto(t, "cc_store", [op |-> "CaptureCaller", enable |-> enable])
    /\ ncalls' = ncalls + 1
    /\ UNCHANGED <<captureCaller, callerFilePrefixes, configured>>
    /\ UNCHANGED valueVars

CaptureCallerStore(t) ==
    /\ pc[t] = "cc_store"
    /\ captureCaller' = local[t].enable
    /\ pc' = [pc EXCEPT ![t] = "cc_unlock"]
    /\ UNCHANGED <<callerFilePrefixes, callerMutex, local, configured, ncalls>>
    /\ UNCHANGED valueVars

CaptureCallerUnlock(t) ==
    /\ pc[t] = "cc_unlock"
    /\ callerMutex' = 0
    /\ Goto(t, "idle", Idle)
    /\ UNCHANGED <<captureCaller, callerFilePrefixes, configured, ncalls>>
    /\ UNCHANGED valueVars

\* ---- CaptureCallerInfo (src/unnamed/part_000)
CaptureCallerInfoLock(t, enable) ==
    /\ CanCall(t)
    /\ callerMutex = 0
    /\ callerMutex' = t
    /\ Goto(t, "cci_store", [op |-> "CaptureCallerInfo", enable |-> enable])
    /\ ncalls' = ncalls + 1
    /\ UNCHANGED <<captureCaller, callerFilePrefixes, configured>>
    /\ UNCHANGED valueVars

CaptureCallerInfoStore(t) ==
    /\ pc[t] = "cci_store"
    /\ captureCaller' = local[t].enable
    /\ pc' = [pc EXCEPT ![t] = "cci_unlock"]
    /\ UNCHANGED <<callerFilePrefixes, callerMutex, local, configured, ncalls>>
    /\ UNCHANGED valueVars

CaptureCallerInfoUnlock(t) ==
    /\ pc[t] = "cci_unlock"
    /\ callerMutex' = 0
    /\ Goto(t, "idle", Idle)
    /\ UNCHANGED <<captureCaller, callerFilePrefixes, configured, ncalls>>
    /\ UNCHANGED valueVars

\* ---- StripCallerFilePrefixes (src/unnamed/part_000)
\* a GetCallerInfo call under way learns of the list this call configures
NoteList(l, prefixes) ==
    IF l.op = "GetCallerInfo" THEN [l EXCEPT !.lists = @ \cup {prefixes}] ELSE l

StripCallerFilePrefixesLock(t, prefixes) ==
    /\ CanCall(t)
    /\ callerMutex = 0
    /\ callerMutex' = t
    /\ pc' = [pc EXCEPT ![t] = "sp_store"]
    /\ local' = [u \in Threads |->
                   IF u = t
                   THEN [op |-> "StripCallerFilePrefixes", prefixes |-> prefixes,
                         stored |-> {}]
                   ELSE NoteList(local[u], prefixes)]
    /\ ncalls' = ncalls + 1
    /\ UNCHANGED <<captureCaller, callerFilePrefixes, configured>>
    /\ UNCHANGED valueVars

\* _callerFilePrefixes = prefixes stores the words of the slice header one
\* at a time (the data pointer, which stands for the array it points to, and
\* the length), in an order the compiler chooses
StripCallerFilePrefixesStore(t, word) ==
    /\ pc[t] = "sp_store"
    /\ word \notin local[t].stored
    /\ callerFilePrefixes' =
          [callerFilePrefixes EXCEPT
             ![word] = IF word = "ptr" THEN local[t].prefixes
                       ELSE Len(local[t].prefixes)]
    /\ IF local[t].stored \cup {word} = {"ptr", "len"}
       THEN /\ Goto(t, "sp_unlock", local[t])
            /\ configured' = local[t].prefixes
       ELSE /\ Goto(t, "sp_store", [local[t] EXCEPT !.stored = @ \cup {word}])
            /\ UNCHANGED configured
    /\ UNCHANGED <<captureCaller, callerMutex, ncalls>>
    /\ UNCHANGED valueVars

StripCallerFilePrefixesUnlock(t) ==
    /\ pc[t] = "sp_unlock"
    /\ callerMutex' = 0
    /\ Goto(t, "idle", Idle)
    /\ UNCHANGED <<captureCaller, callerFilePrefixes, configured, ncalls>>
    /\ UNCHANGED valueVars

\* ---- New, Newf, Wrap, Wrapf (src/error.go)
\* the struct literal is built; the flag is read next
Construct(t, op, x, fn, line, callers) ==
    /\ CanCall(t)
    /\ Goto(t, "ctor_flag", [op |-> op, x |-> x, fn |-> fn, line |-> line,
                             callers |-> callers, flag |-> FALSE])
    /\ ncalls' = ncalls + 1
    /\ UNCHANGED <<captureCaller, callerFilePrefixes, callerMutex, configured>>
    /\ UNCHANGED valueVars

NewAlloc(t, code, message, callers) ==
    Construct(t, "New", xerrLit(code, message, 0), "xerrors.New", 110, callers)

NewfAlloc(t, code, format, args, callers) ==
    Construct(t, "Newf", xerrLit(code, Sprintf(format, args), 0),
              "xerrors.Newf", 122, callers)

WrapAlloc(t, code, err, message, callers) ==
    Construct(t, "Wrap", xerrLit(code, message, err), "xerrors.Wrap", 135,
              callers)

WrapfAlloc(t, code, err, format, args, callers) ==
    Construct(t, "Wrapf", xerrLit(code, Sprintf(format, args), err),
              "xerrors.Wrapf", 148, callers)

\* if _captureCaller: the read of the flag, without the mutex. The flag is
\* one byte: a read that races with a store returns the value before or the
\* value after it, which is what this step does as it runs before or after
\* the store.
ConstructReadFlag(t) ==
    /\ pc[t] = "ctor_flag"
    /\ Goto(t, "ctor_capture", [local[t] EXCEPT !.flag = captureCaller])
    /\ UNCHANGED <<captureCaller, callerFilePrefixes, callerMutex, configured,
                   ncalls>>
    /\ UNCHANGED valueVars

\* xerr.file, xerr.line = getCaller(1) when the flag was read as true; return
ConstructCapture(t) ==
    /\ pc[t] = "ctor_capture"
    /\ Goto(t, "ctor_done",
            [local[t] EXCEPT !.x = captureInto(local[t].x, local[t].flag,
                                               local[t].fn, local[t].line,
                                               local[t].callers)])
    /\ UNCHANGED <<captureCaller, callerFilePrefixes, callerMutex, configured,
                   ncalls>>
    /\ UNCHANGED valueVars

\* ---- GetCallerInfo (src/unnamed/part_000)
\* runtime.Caller(2 + skip) and, when it succeeds, FuncForPC(pc).Name()
GetCallerInfoCaller(t, skip, callers) ==
    /\ CanCall(t)
    /\ LET c == runtimeCaller(
                   <<Frame("xerrors.GetCallerInfo", PathLib, 125)>> \o callers,
                   2 + skip)
           l == [op |-> "GetCallerInfo", skip |-> skip, c |-> c,
                 hdr |-> [ptr |-> <<>>, len |-> 0], loaded |-> {},
                 lists |-> ListsNow, result |-> DefaultCallerInfo]
       IN  IF ~c.ok THEN Goto(t, "gci_done", l) ELSE Goto(t, "gci_load", l)
    /\ ncalls' = ncalls + 1
    /\ UNCHANGED <<captureCaller, callerFilePrefixes, callerMutex, configured>>
    /\ UNCHANGED valueVars

\* range _callerFilePrefixes reads the words of the slice header, without
\* the mutex; with both read the loop runs over what they describe. A length
\* beyond the array read makes the loop read memory that is not the array's.
GetCallerInfoLoad(t, word) ==
    /\ pc[t] = "gci_load"
    /\ word \notin local[t].loaded
    /\ LET hdr == [local[t].hdr EXCEPT ![word] = callerFilePrefixes[word]]
           l == [local[t] EXCEPT !.hdr = hdr, !.loaded = @ \cup {word}]
       IN  IF l.loaded # {"ptr", "len"} THEN Goto(t, "gci_load", l)
           ELSE IF hdr.len > Len(hdr.ptr) THEN Goto(t, "gci_fault", l)
           ELSE Goto(t, "gci_done",
                     [l EXCEPT !.result =
                         callerInfoOf(l.c, SubSeq(hdr.ptr, 1, hdr.len))])
    /\ UNCHANGED <<captureCaller, callerFilePrefixes, callerMutex, configured,
                   ncalls>>
    /\ UNCHANGED valueVars

\* the caller takes the result of a constructor or of GetCallerInfo
Return(t) ==
    /\ pc[t] \in {"ctor_done", "gci_done"}
    /\ Goto(t, "idle", Idle)
    /\ UNCHANGED <<captureCaller, callerFilePrefixes, callerMutex, configured,
                   ncalls>>
    /\ UNCHANGED valueVars

NextConc ==
    \E t \in Threads :
        \/ \E enable \in BOOLEAN : CaptureCallerLock(t, enable)
        \/ CaptureCallerStore(t)
        \/ CaptureCallerUnlock(t)
        \/ \E enable \in BOOLEAN : CaptureCallerInfoLock(t, enable)
        \/ CaptureCallerInfoStore(t)
        \/ CaptureCallerInfoUnlock(t)
        \/ \E prefixes \in PrefixLists : StripCallerFilePrefixesLock(t, prefixes)
        \/ \E word \in {"ptr", "len"} : StripCallerFilePrefixesStore(t, word)
        \/ StripCallerFilePrefixesUnlock(t)
        \/ \E code \in Codes, message \in Messages, callers \in CallerStacks :
              NewAlloc(t, code, message, callers)
        \/ \E code \in Codes, format \in Formats, args \in ArgLists,
              callers \in CallerStacks :
              NewfAlloc(t, code, format, args, callers)
        \/ \E code \in Codes, err \in 1..Len(errs), message \in Messages,
              callers \in CallerStacks :
              WrapAlloc(t, code, err, message, callers)
        \/ \E code \in Codes, err \in 1..Len(errs), format \in Formats,
              args \in ArgLists, callers \in CallerStacks :
              WrapfAlloc(t, code, err, format, args, callers)
        \/ ConstructReadFlag(t)
        \/ ConstructCapture(t)
        \/ \E skip \in 0..MaxSkip, callers \in CallerStacks :
              GetCallerInfoCaller(t, skip, callers)
        \/ \E word \in {"ptr", "len"} : GetCallerInfoLoad(t, word)
        \/ Return(t)

SpecConc == Init /\ [][NextConc]_vars

-----------------------------------------------------------------------------
(* Properties of the capture controller, checked under SpecConc.           *)

AtFlagRead(t) == pc[t] = "ctor_flag"
AtFlagWrite(t) == pc[t] \in {"cc_store", "cci_store"}
AtPrefixRead(t) == pc[t] = "gci_load"
AtPrefixWrite(t) == pc[t] = "sp_store"

\* C1: reads and writes of the flag and of the prefix list are serialized by
\* the mutex: no goroutine is about to read one of them while another
\* goroutine, inside its critical section, is about to write it.
C1_AccessSerialized ==
    \A r, w \in Threads :
        r # w =>
            /\ ~(AtFlagRead(r) /\ AtFlagWrite(w))
            /\ ~(AtPrefixRead(r) /\ AtPrefixWrite(w))

\* C6: an error a constructor returns has the file and line of the
\* constructor's immediate caller when the call read the flag as true, and an
\* empty file and line 0 when it read false; never one without the other.
C6_OriginAllOrNothing ==
    \A t \in Threads :
        pc[t] = "ctor_done" =>
            LET x == local[t].x
                site == local[t].callers[1]
            IN  /\ local[t].flag => (x.file = site.file /\ x.line = site.line)
                /\ ~local[t].flag => (x.file = EmptyString /\ x.line = 0)
                /\ (x.file = EmptyString) <=> (x.line = 0)
                /\ x.file # unknownFilename

\* a constructor that read the flag as true returns with the origin of its
\* caller while another goroutine is in the middle of turning the flag off
C6_Witness ==
    \E t, w \in Threads :
        /\ pc[t] = "ctor_done"
        /\ local[t].flag
        /\ local[t].x.file = PathOther
        /\ local[t].x.line = 9
        /\ pc[w] = "cc_unlock"
        /\ ~captureCaller

\* what a list of prefixes asks for: the file without the first prefix of the
\* list it starts with, and the file itself when it starts with none
FirstMatch(file, prefixes) ==
    {i \in 1..Len(prefixes) :
        /\ HasPrefix(file, prefixes[i])
        /\ \A j \in 1..(i - 1) : ~HasPrefix(file, prefixes[j])}

StrippedBy(file, prefixes) ==
    IF FirstMatch(file, prefixes) = {} THEN file
    ELSE LET i == CHOOSE i \in FirstMatch(file, prefixes) : TRUE
         IN  SubSeq(file, Len(prefixes[i]) + 1, Len(file))

\* C10: GetCallerInfo returns the sentinel when stack inspection fails, and
\* else the frame's line and function with the file stripped of exactly the
\* first matching prefix of a list configured when the call ran.
C10_FirstPrefixStripped ==
    \A t \in Threads :
        /\ pc[t] # "gci_fault"
        /\ pc[t] = "gci_done" =>
              IF ~local[t].c.ok THEN local[t].result = DefaultCallerInfo
              ELSE /\ local[t].result.Line = local[t].c.line
                   /\ local[t].result.Func = local[t].c.fn
                   /\ \E prefixes \in local[t].lists :
                         local[t].result.File = StrippedBy(local[t].c.file, prefixes)

\* GetCallerInfo calls that read both words of the slice header from one
\* stored list do what C10 says: the loop itself strips the first match only
GetCallerInfoOnWholeList ==
    \A t \in Threads :
        (/\ pc[t] = "gci_done"
         /\ local[t].c.ok
         /\ local[t].hdr.len = Len(local[t].hdr.ptr)) =>
            /\ local[t].hdr.ptr \in local[t].lists
            /\ local[t].result.File = StrippedBy(local[t].c.file, local[t].hdr.ptr)

====
